---------------------------- MODULE Spec2Model ----------------------------
(***************************************************************************)
(* go-cacheable: the cache-aside coordinator CacheManager.Get with its     *)
(* single-flight group, over an external key/value store, together with    *)
(* Delete, DeleteByTags and the setters of the package defaults.           *)
(*                                                                         *)
(* Every Get call is one caller (a goroutine).  A caller's steps are the   *)
(* places where Get touches state shared with other goroutines: the        *)
(* store lookup (with the request counter and the key composition before   *)
(* it), the entry into the single-flight group (under its mutex), the      *)
(* return of the loader with the retirement of the in-flight call (under   *)
(* the mutex), and the store write (with the resolution of the options     *)
(* before it and the return after it).  The store and the single-flight    *)
(* group are libraries: the store is any store.StoreInterface, which may   *)
(* fail a call, hands back a payload in a representation of its own and    *)
(* expires entries by its own clock; the group is                          *)
(* golang.org/x/sync/singleflight.                                         *)
(***************************************************************************)
EXTENDS Naturals, Sequences, FiniteSets

(* ------------------------------ bounds -------------------------------- *)

\* Number of Get calls, each made by its own goroutine; the callers are
\* numbered in the order in which they call Get.
NumCallers == 2

\* Number of Delete / DeleteByTags calls made while the callers run.
MaxDeletes == 1

\* Number of calls of the SetDefault... functions made while the callers run.
MaxSetterCalls == 1

\* Minutes by which the store's clock advances in one step.
TickStep == 5

\* Longest namespace and key strings composed into a store key.
MaxLen == 2

Callers == 1..NumCallers

\* The callers and one further Get call.
AllCallers == 1..(NumCallers + 1)

\* Arguments the callers draw from.
Namespaces == {"users", "orders"}
UserKeys == {"42"}
Payloads == {"Alice", ""}
TagLists == {<<"user">>}

(* --------------------------- values ----------------------------------- *)

\* A nil []byte.
Nil == "<nil>"

\* error values: nil, store.NotFound, an opaque store failure on Get, an
\* opaque store failure on Set, and the error returned by caller c's loader.
NoErr == [kind |-> "nil", id |-> 0]
NotFound == [kind |-> "store.NotFound", id |-> 0]
StoreFault == [kind |-> "store get failure", id |-> 0]
WriteFault == [kind |-> "store set failure", id |-> 0]
LoaderErr(c) == [kind |-> "fn error", id |-> c]

\* errors.New("unsupported data type")
Unsupported == [kind |-> "unsupported data type", id |-> 0]

\* An opaque failure of the store's Delete or Invalidate.
DeleteFault == [kind |-> "store delete failure", id |-> 0]

\* ctx.Err() of a cancelled context, as a store that watches ctx returns it.
Canceled == [kind |-> "context canceled", id |-> 0]

\* var defaultExpiration = 60 * time.Minute (in minutes)
DefaultExpirationInit == 60

\* An expiration a caller passes with WithExpiration (in minutes).
ShortExpiration == 10

\* An expiration passed to SetDefaultExpiration (in minutes).
OtherExpiration == 30

\* The store's clock stops one step after the short expiration has elapsed.
MaxTime == ShortExpiration + TickStep

\* The dynamic types in which a store hands back a payload.
Representations == {"[]byte", "string", "other"}

VARIABLES
    defaultKeyPrefix,   \* var defaultKeyPrefix
    defaultExpiration,  \* var defaultExpiration
    store,              \* the entries of i.cache: composed key -> entry
    sgm,                \* i.sg: the in-flight table, composed key -> call
    call,               \* the call struct created by caller c as leader
    CacheRequestTotal,  \* counter per namespace
    CacheHitTotal,      \* counter per namespace
    pc,                 \* where caller c is in Get
    namespace,          \* Get's argument namespace
    key,                \* Get's local key, after composition
    joined,             \* the call (its leader) caller c is part of, or 0
    ret,                \* (value, err, cached) returned by Get
    nDeletes,           \* Delete / DeleteByTags calls made so far
    sinceDelete,        \* history: callers returned since the last of them
    obs,                \* history of caller c, read by the properties only
    defaultMetricsPrefix, \* var defaultMetricsPrefix
    metricsNamespace,   \* CounterOpts.Namespace of the two counter vectors
    now,                \* the store's clock (minutes)
    cancelled,          \* whether caller c's ctx is cancelled
    nSetters,           \* SetDefault... calls made so far
    lastDel,            \* history: the last Delete / DeleteByTags call
    representation,     \* the dynamic type in which the store hands back payloads
    pairs,              \* two (namespace, key) pairs to compose
    composed,           \* the store keys composed from them
    T,                  \* the type parameter of caller c's Get[T], or "[]byte"
                        \* when c calls CacheManager.Get itself
    typedRet            \* (value, err, cached) returned by Get[T]

vars == <<defaultKeyPrefix, defaultExpiration, store, sgm, call,
          CacheRequestTotal, CacheHitTotal, pc, namespace, key, joined,
          ret, nDeletes, sinceDelete, obs, defaultMetricsPrefix,
          metricsNamespace, now, cancelled, nSetters, lastDel,
          representation, pairs, composed, T, typedRet>>

\* The package defaults and the metrics.
config == <<defaultKeyPrefix, defaultExpiration, defaultMetricsPrefix,
            metricsNamespace, nSetters>>

\* The key composition on its own.
keyCheck == <<pairs, composed>>

\* What the callers' environment is: the store's kind and clock, the
\* contexts, and the type parameters of the calls.
env == <<representation, now, cancelled, T>>

(* ------------------------- pure functions ----------------------------- *)

\* Mutant: the namespace is left out of the store key.
ComposeKeyNoNamespace(prefix, ns, k) == prefix \o ":" \o k

\* key = defaultKeyPrefix + ":" + namespace + ":" + key
ComposeKey(prefix, ns, k) == prefix \o ":" \o ns \o ":" \o k

\* Mutant: Delete hands the store the key without the prefix.
DeleteKeyUnprefixed(prefix, ns, k) == ns \o ":" \o k

\* The same composition, in Delete.
DeleteKey(prefix, ns, k) == ComposeKey(prefix, ns, k)

\* options.go: an Option is a closure over the Options it edits; here it is
\* the record of what the closure does when applied.  The tags of
\* WithDynamicTags are what its fn returns.
WithTags(tags) == [opt |-> "tags", tags |-> tags, expiration |-> 0]
WithDynamicTags(tags) == [opt |-> "dynamic", tags |-> tags, expiration |-> 0]
WithExpiration(d) == [opt |-> "expiration", tags |-> <<>>, expiration |-> d]

\* Mutant: the closure of WithDynamicTags calls fn once to test its result
\* and once more to append it.
ApplyOneCallsFnTwice(o, option) ==
    IF option.opt = "expiration"
    THEN [o EXCEPT !.Expiration = option.expiration]
    ELSE [o EXCEPT !.Tags = o.Tags \o option.tags,
                   !.FnCalls = IF option.opt = "dynamic" THEN @ + 2 ELSE @]

\* One Option applied to *Options; FnCalls counts the calls of the fn of
\* WithDynamicTags made on the way.
ApplyOne(o, option) ==
    IF option.opt = "expiration"
    THEN [o EXCEPT !.Expiration = option.expiration]
    ELSE [o EXCEPT !.Tags = o.Tags \o option.tags,
                   !.FnCalls = IF option.opt = "dynamic" THEN @ + 1 ELSE @]

RECURSIVE ApplyFrom(_, _, _)
ApplyFrom(o, opts, i) ==
    IF i > Len(opts) THEN o ELSE ApplyFrom(ApplyOne(o, opts[i]), opts, i + 1)

\* o := &Options{}; for _, opt := range opts { opt(o) }
applyOptions(opts) ==
    ApplyFrom([Expiration |-> 0, Tags |-> <<>>, FnCalls |-> 0], opts, 1)

\* Mutant: the fallback is the default the package started with.
ResolveSetOptionsInitialDefault(options, dflt) ==
    [expiration |-> IF options.Expiration > 0 THEN options.Expiration
                    ELSE DefaultExpirationInit,
     tags |-> IF Len(options.Tags) > 0 THEN options.Tags ELSE <<>>]

\* Mutant: the expiration of the options is not handed to the store.
ResolveSetOptionsDefaultOnly(options, dflt) ==
    [expiration |-> dflt,
     tags |-> IF Len(options.Tags) > 0 THEN options.Tags ELSE <<>>]

\* The store.Option list built from the Options: the expiration (the
\* default when none is positive) and the tags (when there are any).
ResolveSetOptions(options, dflt) ==
    [expiration |-> IF options.Expiration > 0 THEN options.Expiration ELSE dflt,
     tags |-> IF Len(options.Tags) > 0 THEN options.Tags ELSE <<>>]

\* The option lists the callers draw from.
OptChoices ==
    { <<>>,
      <<WithExpiration(ShortExpiration), WithTags(<<"user">>),
        WithDynamicTags(<<"teamId:1">>)>> }

\* The type parameters of Get[T] the callers draw from.
Types == {"string", "float64"}

\* The values of type t a loader may return, and the zero value of t.
Values(t) == IF t = "string" THEN {"Alice", ""} ELSE {"1.5", "NaN"}
Zero(t) == IF t = "string" THEN "" ELSE "0"

\* The errors of encoding/json: *json.UnsupportedValueError of Marshal,
\* *json.SyntaxError and *json.UnmarshalTypeError of Unmarshal.
MarshalErr == [kind |-> "json: unsupported value", id |-> 0]
SyntaxErr == [kind |-> "json: syntax error", id |-> 0]
TypeErr == [kind |-> "json: cannot unmarshal", id |-> 0]

\* A Go string as a JSON string literal.
Quote(v) == "\"" \o v \o "\""

\* json.Marshal(v) for v of type t: a string becomes its literal, a
\* float64 its digits, and NaN is not a JSON value.
Marshal(t, v) ==
    IF t = "string" THEN [d |-> Quote(v), err |-> NoErr]
    ELSE IF v = "NaN" THEN [d |-> Nil, err |-> MarshalErr]
    ELSE [d |-> v, err |-> NoErr]

\* The kind of JSON value the bytes b hold, if they are JSON at all.
JSONKind(b) ==
    IF b \in {"0", "1.5"} THEN "number"
    ELSE IF \E v \in Values("string") : Quote(v) = b THEN "string"
    ELSE IF b = "null" THEN "null"
    ELSE "invalid"

\* json.Unmarshal(data, &value) for a zero value of type t: null leaves the
\* value as it is, a JSON value of another kind is a type error, bytes that
\* are not JSON a syntax error.
Unmarshal(b, t) ==
    CASE JSONKind(b) = "invalid" -> [value |-> Zero(t), err |-> SyntaxErr]
      [] JSONKind(b) = "null" -> [value |-> Zero(t), err |-> NoErr]
      [] JSONKind(b) = "string" ->
            IF t = "string"
            THEN [value |-> CHOOSE v \in Values("string") : Quote(v) = b,
                  err |-> NoErr]
            ELSE [value |-> Zero(t), err |-> TypeErr]
      [] OTHER ->
            IF t = "float64" THEN [value |-> b, err |-> NoErr]
            ELSE [value |-> Zero(t), err |-> TypeErr]

\* What the fn passed to Get[T] may return: a value of type T[c], or an
\* error of its own.
TypedFnResults(c) ==
    {[v |-> v, err |-> NoErr] : v \in Values(T[c])}
    \cup {[v |-> Zero(T[c]), err |-> LoaderErr(c)]}

\* The loader Get[T] hands to CacheManager.Get:
\* v, e := fn(); if e != nil { return nil, e }; return json.Marshal(v)
Wrap(t, r) == IF r.err # NoErr THEN [d |-> Nil, err |-> r.err] ELSE Marshal(t, r.v)

\* What a loader may return: a payload, or an error of its own; under
\* Get[T], what the loader it wraps fn in returns.
FnResults(c) ==
    IF T[c] = "[]byte"
    THEN {[d |-> p, err |-> NoErr] : p \in Payloads}
         \cup {[d |-> Nil, err |-> LoaderErr(c)]}
    ELSE {Wrap(T[c], r) : r \in TypedFnResults(c)}

\* The strings of at most n characters over a letter and the separator.
RECURSIVE Strings(_)
Strings(n) ==
    IF n = 0 THEN {""}
    ELSE Strings(n - 1) \cup {s \o ch : s \in Strings(n - 1), ch \in {"a", ":"}}

(* ------------------------------ store --------------------------------- *)

\* An entry written at e.at with expiration e.expiration: still served,
\* or no longer served (at the very deadline a store may do either).
Fresh(e) == now < e.at + e.expiration
Stale(e) == now > e.at + e.expiration

\* What i.cache.Get(ctx, k) may return: the entry's data in the store's
\* representation, store.NotFound when there is no entry or it has
\* expired, or a failure of the store itself.
StoreGetResults(s, k) ==
    (IF k \in DOMAIN s /\ ~Stale(s[k])
     THEN {[data |-> s[k].data, rep |-> representation, err |-> NoErr]}
     ELSE {})
    \cup (IF k \in DOMAIN s /\ Fresh(s[k])
          THEN {}
          ELSE {[data |-> Nil, rep |-> "none", err |-> NotFound]})
    \cup {[data |-> Nil, rep |-> "none", err |-> StoreFault]}

\* What a store that watches ctx may return besides, once ctx is cancelled.
CtxGetResults(c) ==
    IF cancelled[c] THEN {[data |-> Nil, rep |-> "none", err |-> Canceled]} ELSE {}

Put(s, k, e) == [x \in DOMAIN s \cup {k} |-> IF x = k THEN e ELSE s[x]]

Remove(s, ks) == [x \in DOMAIN s \ ks |-> s[x]]

\* What i.cache.Set(ctx, k, data, setOptions...) may do: write the entry and
\* return nil, or fail, having written the entry or not.
StoreSetResults(s, k, e) ==
    {[store |-> Put(s, k, e), err |-> NoErr],
     [store |-> Put(s, k, e), err |-> WriteFault],
     [store |-> s, err |-> WriteFault]}

CtxSetResults(c, s) ==
    IF cancelled[c] THEN {[store |-> s, err |-> Canceled]} ELSE {}

SeqRange(q) == {q[i] : i \in 1..Len(q)}

\* Mutant: the tags are not handed to the store, which then invalidates
\* nothing.
TaggedNoTags(s, tags) == {}

\* The entries store.WithInvalidateTags(tags) names: those that bear one of
\* the tags.
Tagged(s, tags) ==
    {x \in DOMAIN s : SeqRange(s[x].tags) \cap SeqRange(tags) # {}}

\* Mutant: deleting a key that has no entry is reported as not found.
StoreDeleteResultsStrict(s, ks) ==
    IF ks \cap DOMAIN s = {}
    THEN {[store |-> s, err |-> NotFound]}
    ELSE {[store |-> Remove(s, ks), err |-> NoErr]}

\* What i.cache.Delete(ctx, key) and i.cache.Invalidate(ctx, tags) may do
\* with the entries ks they name: remove those there are and return nil
\* (also when there is none), or fail and leave them.
StoreDeleteResults(s, ks) ==
    {[store |-> Remove(s, ks), err |-> NoErr],
     [store |-> s, err |-> DeleteFault]}

(* ---------------------------- Get: returns ---------------------------- *)

\* errors.Is(err, store.NotFound{})
IsNotFound(err) == err.kind = NotFound.kind

\* Mutant: an entry that was found is loaded again all the same.
LookupBranchHitReloads(err) ==
    IF err # NoErr /\ ~IsNotFound(err) THEN "fault" ELSE "miss"

\* Mutant: a store failure on the lookup is taken for a miss.
LookupBranchMasksFault(err) == IF err = NoErr THEN "hit" ELSE "miss"

\* if err != nil && !errors.Is(err, store.NotFound{}) {...} else if err == nil {...}
LookupBranch(err) ==
    IF err # NoErr /\ ~IsNotFound(err) THEN "fault"
    ELSE IF err = NoErr THEN "hit"
    ELSE "miss"

\* return nil, err, false
FaultReturn(err) == [value |-> Nil, err |-> err, cached |-> FALSE]

\* return data.([]byte), nil, true
HitReturn(data) == [value |-> data, err |-> NoErr, cached |-> TRUE]

\* Mutant: the unsupported payload is reported as cached.
UnsupportedReturnCached == [value |-> Nil, err |-> Unsupported, cached |-> TRUE]

\* return nil, errors.New("unsupported data type"), false
UnsupportedReturn == [value |-> Nil, err |-> Unsupported, cached |-> FALSE]

\* Mutant: only a []byte payload is accepted.
TypeSwitchBytesOnly(rep, data) ==
    IF rep = "[]byte" THEN HitReturn(data) ELSE UnsupportedReturn

\* switch data.(type): a []byte is returned as it is, a string as the
\* []byte of the same content, anything else is an error.
TypeSwitch(rep, data) ==
    IF rep \in {"[]byte", "string"} THEN HitReturn(data) ELSE UnsupportedReturn

\* if fnErr != nil { return nil, fnErr, false }
LoaderErrReturn(fnErr) == [value |-> Nil, err |-> fnErr, cached |-> FALSE]

\* Mutant: Get[T] reports cached = false whenever it returns an error.
GetTNotCachedOnError(t, r) ==
    IF t = "[]byte" THEN r
    ELSE IF r.err # NoErr THEN [value |-> Zero(t), err |-> r.err, cached |-> FALSE]
    ELSE [value |-> Unmarshal(r.value, t).value,
          err |-> Unmarshal(r.value, t).err,
          cached |-> r.cached /\ Unmarshal(r.value, t).err = NoErr]

\* Get[T] after cacheManager.Get has returned r = (data, err, cached):
\* if err != nil { return value, err, cached }, then
\* err = json.Unmarshal(data, &value) and return value, err, cached.
\* A call of CacheManager.Get itself returns r.
GetT(t, r) ==
    IF t = "[]byte" THEN r
    ELSE IF r.err # NoErr THEN [value |-> Zero(t), err |-> r.err, cached |-> r.cached]
    ELSE [value |-> Unmarshal(r.value, t).value,
          err |-> Unmarshal(r.value, t).err,
          cached |-> r.cached]

\* Mutant: the Set error is swallowed.
SetErrSwallowed(data, err) == [value |-> Nil, err |-> NoErr, cached |-> FALSE]

\* Mutant: the computed value is returned beside the Set error.
SetErrKeepsValue(data, err) == [value |-> data, err |-> err, cached |-> FALSE]

\* if err != nil { return nil, err, false }   (after i.cache.Set)
SetErrReturn(data, err) == [value |-> Nil, err |-> err, cached |-> FALSE]

\* Mutant: a computed value is reported as cached.
MissReturnCached(data, fnErr) == [value |-> data, err |-> fnErr, cached |-> TRUE]

\* return data.([]byte), fnErr, false
MissReturn(data, fnErr) == [value |-> data, err |-> fnErr, cached |-> FALSE]

\* Mutant: an empty payload is taken for no payload.
DoFnEmptyIsNil(d, err) ==
    IF err # NoErr \/ d = "" THEN [val |-> Nil, err |-> err] ELSE [val |-> d, err |-> NoErr]

\* Mutant: the loader's error is dropped.
DoFnDropsErr(d, err) == [val |-> d, err |-> NoErr]

\* The function handed to sg.Do: the loader's (d, err), d dropped on error.
DoFn(d, err) ==
    IF err # NoErr THEN [val |-> Nil, err |-> err] ELSE [val |-> d, err |-> NoErr]

\* Mutant: the check does not see the call registered for the key.
InFlightUnseen(m, k) == FALSE

\* singleflight: "if c, ok := g.m[key]; ok", read under g.mu.
InFlight(m, k) == k \in DOMAIN m

\* Mutant: a call stays in the table when it is done.
RetireNever(m, k, err) == m

\* Mutant: a call that failed stays in the table.
RetireOnSuccess(m, k, err) == IF err # NoErr THEN m ELSE [x \in DOMAIN m \ {k} |-> m[x]]

\* singleflight doCall, under g.mu: delete(g.m, key).
Retire(m, k, err) == Remove(m, {k})

NoCall == [val |-> Nil, err |-> NoErr, done |-> FALSE]
NoRet == [value |-> Nil, err |-> NoErr, cached |-> FALSE]

\* No Delete / DeleteByTags call yet.  Of the last one: which it was, its
\* arguments, the error it returned, the store before and after it, the
\* callers that had called Get / had started a loader / had returned from
\* Get when it ran, and the same of the call before it.
NoPrev == [op |-> "none", arg |-> <<>>, err |-> NoErr,
           before |-> <<>>, after |-> <<>>]
NoDel == [op |-> "none", arg |-> <<>>, err |-> NoErr,
          before |-> <<>>, after |-> <<>>, keyPrefix |-> "",
          started |-> {}, loaded |-> {}, done |-> {}, prev |-> NoPrev]

\* The history of a caller: the callers that had returned when it called
\* Get, those of them that returned after the last Delete / DeleteByTags,
\* its arguments namespace and key,
\* what the store answered to its lookup, how often its loader ran and what
\* it returned, how many Sets it issued and what the store answered;
\* the representation the lookup returned, the clock at the lookup, the
\* entry the store held for the key then (its writer, 0 for none), the
\* last Delete / DeleteByTags before the call, the defaults and the counter
\* vectors' prefix at the call; the options applied, the calls of the fn of
\* WithDynamicTags, the default expiration read, the entry handed to Set and
\* the Delete / DeleteByTags calls made before the Set; where the caller
\* was when its ctx was cancelled; whether the call it joined in the group
\* was done already.
NoObs == [before |-> {}, beforeClean |-> {}, getErr |-> NoErr,
          loaderRuns |-> 0, fn |-> [d |-> Nil, err |-> NoErr],
          setCalls |-> 0, setErr |-> NoErr,
          arg |-> <<>>,
          rep |-> "none", lookupAt |-> 0, saw |-> 0, del |-> NoDel,
          keyPrefix |-> "", metricsPrefix |-> "", countedUnder |-> "",
          opts |-> <<>>, fnCalls |-> 0, dflt |-> 0,
          entry |-> [expiration |-> 0, tags |-> <<>>, at |-> 0, data |-> Nil],
          cancelledIn |-> "", settersAtSet |-> 0, joinedDone |-> FALSE]

\* Mutant: the increment ignores the namespace label.
IncEveryLabel(counter, ns) == [n \in DOMAIN counter |-> counter[n] + 1]

\* CounterVec.WithLabelValues(ns).Inc()
Inc(counter, ns) == [counter EXCEPT ![ns] = @ + 1]

\* Mutant: Do hands the shared result back without the error.
DoResultDropsErr(c) == [val |-> call[joined[c]].val, err |-> NoErr]

\* Mutant: Do hands back what the caller's own call struct holds.
DoResultOwnCall(c) == [val |-> call[c].val, err |-> call[c].err]

\* result, fnErr of sg.Do as caller c holds them once its call is done.
DoResult(c) == [val |-> call[joined[c]].val, err |-> call[joined[c]].err]

\* Mutant: the leader never wakes the callers that joined.
WaitNeverOver(c) == FALSE

\* Mutant: a caller that joined does not wait.
WaitNotBlocking(c) == TRUE

\* Mutant: a caller that joined stops waiting when its ctx is cancelled.
WaitOverOrCancelled(c) == call[joined[c]].done \/ cancelled[c]

\* c.wg.Wait() of a caller that joined returns once the call is done.
WaitOver(c) == call[joined[c]].done

(* ------------------------------- Init --------------------------------- *)

\* The package variables, the counter vectors (built with the metrics
\* prefix the package starts with), a CacheManager over an empty store.
InitProgram ==
    /\ defaultKeyPrefix = "cacheable"
    /\ defaultExpiration = DefaultExpirationInit
    /\ defaultMetricsPrefix = "cacheable"
    /\ metricsNamespace = "cacheable"
    /\ store = <<>>
    /\ sgm = <<>>
    /\ call = [c \in AllCallers |-> NoCall]
    /\ CacheRequestTotal = [n \in Namespaces |-> 0]
    /\ CacheHitTotal = [n \in Namespaces |-> 0]
    /\ pc = [c \in AllCallers |-> "idle"]
    /\ namespace = [c \in AllCallers |-> ""]
    /\ key = [c \in AllCallers |-> ""]
    /\ joined = [c \in AllCallers |-> 0]
    /\ ret = [c \in AllCallers |-> NoRet]
    /\ typedRet = [c \in AllCallers |-> NoRet]
    /\ nDeletes = 0
    /\ sinceDelete = {}
    /\ obs = [c \in AllCallers |-> NoObs]
    /\ now = 0
    /\ cancelled = [c \in AllCallers |-> FALSE]
    /\ nSetters = 0
    /\ lastDel = NoDel
    /\ composed = <<>>

\* The store is one that hands back payloads as []byte (the go-cache store
\* of the tests), and the callers call CacheManager.Get.
Init ==
    /\ InitProgram
    /\ representation = "[]byte"
    /\ pairs = <<>>
    /\ T = [c \in AllCallers |-> "[]byte"]

(* ------------------------------ actions ------------------------------- *)

\* Caller c returns r from CacheManager.Get, and Get[T] returns in turn.
Return(c, r) ==
    /\ ret' = [ret EXCEPT ![c] = r]
    /\ typedRet' = [typedRet EXCEPT ![c] = GetT(T[c], r)]
    /\ pc' = [pc EXCEPT ![c] = "done"]
    /\ sinceDelete' = sinceDelete \cup {c}

\* Get is called: the request counter, the key composition, then
\* data, err := i.cache.Get(ctx, key) and the three branches on err.
GetLookup(c) ==
    /\ pc[c] = "idle"
    /\ \A d \in AllCallers : d < c => pc[d] # "idle"
    /\ \E ns \in Namespaces, k \in UserKeys :
        LET ck == ComposeKey(defaultKeyPrefix, ns, k) IN
        \E r \in StoreGetResults(store, ck) \cup CtxGetResults(c) :
          /\ CacheRequestTotal' = Inc(CacheRequestTotal, ns)
          /\ namespace' = [namespace EXCEPT ![c] = ns]
          /\ key' = [key EXCEPT ![c] = ck]
          /\ obs' = [obs EXCEPT ![c] =
                 [@ EXCEPT !.before = {d \in AllCallers : pc[d] = "done"},
                           !.beforeClean = sinceDelete,
                           !.getErr = r.err,
                           !.arg = <<ns, k>>,
                           !.rep = r.rep,
                           !.lookupAt = now,
                           !.saw = IF ck \in DOMAIN store THEN store[ck].by ELSE 0,
                           !.del = lastDel,
                           !.keyPrefix = defaultKeyPrefix,
                           !.metricsPrefix = defaultMetricsPrefix,
                           !.countedUnder = metricsNamespace]]
          /\ CASE LookupBranch(r.err) = "fault" ->
                    /\ Return(c, FaultReturn(r.err))
                    /\ UNCHANGED CacheHitTotal
               [] LookupBranch(r.err) = "hit" ->
                    /\ CacheHitTotal' = Inc(CacheHitTotal, ns)
                    /\ Return(c, TypeSwitch(r.rep, r.data))
               [] OTHER ->
                    /\ pc' = [pc EXCEPT ![c] = "do"]
                    /\ UNCHANGED <<CacheHitTotal, ret, typedRet, sinceDelete>>
    /\ UNCHANGED <<defaultKeyPrefix, defaultExpiration, store, sgm, call,
                   joined, nDeletes>>
    /\ UNCHANGED <<defaultMetricsPrefix, metricsNamespace, nSetters, env,
                   lastDel, keyCheck>>

\* sg.Do, under g.mu: join the call in flight for the key, or register a
\* new call, whose loader then starts.
DoEnter(c) ==
    /\ pc[c] = "do"
    /\ IF InFlight(sgm, key[c])
       THEN /\ joined' = [joined EXCEPT ![c] = sgm[key[c]]]
            /\ pc' = [pc EXCEPT ![c] = "wait"]
            /\ obs' = [obs EXCEPT ![c] =
                   [@ EXCEPT !.joinedDone = call[sgm[key[c]]].done]]
            /\ UNCHANGED sgm
       ELSE /\ sgm' = Put(sgm, key[c], c)
            /\ joined' = [joined EXCEPT ![c] = c]
            /\ pc' = [pc EXCEPT ![c] = "loading"]
            /\ obs' = [obs EXCEPT ![c] = [@ EXCEPT !.loaderRuns = @ + 1]]
    /\ UNCHANGED <<defaultKeyPrefix, defaultExpiration, store, call,
                   CacheRequestTotal, CacheHitTotal, namespace, key, ret, typedRet,
                   nDeletes, sinceDelete>>
    /\ UNCHANGED <<defaultMetricsPrefix, metricsNamespace, nSetters, env,
                   lastDel, keyCheck>>

\* After sg.Do has returned (result, fnErr) to caller c:
\* if fnErr != nil { return nil, fnErr, false }, else on to the write.
AfterDo(c, res) ==
    IF res.err # NoErr
    THEN Return(c, LoaderErrReturn(res.err))
    ELSE /\ pc' = [pc EXCEPT ![c] = "set"]
         /\ UNCHANGED <<ret, typedRet, sinceDelete>>

\* The leader's doCall: the loader fn returns (d, err) to the function
\* handed to sg.Do, whose result becomes c.val, c.err; then, under g.mu,
\* c.wg.Done() and delete(g.m, key); Do returns c.val, c.err.
DoCall(c) ==
    /\ pc[c] = "loading"
    /\ \E r \in FnResults(c) :
          /\ call' = [call EXCEPT ![c] =
                      [val |-> DoFn(r.d, r.err).val, err |-> DoFn(r.d, r.err).err,
                       done |-> TRUE]]
          /\ sgm' = Retire(sgm, key[c], DoFn(r.d, r.err).err)
          /\ obs' = [obs EXCEPT ![c] = [@ EXCEPT !.fn = r]]
          /\ AfterDo(c, DoFn(r.d, r.err))
    /\ UNCHANGED <<defaultKeyPrefix, defaultExpiration, store,
                   CacheRequestTotal, CacheHitTotal, namespace, key, joined,
                   nDeletes>>
    /\ UNCHANGED <<defaultMetricsPrefix, metricsNamespace, nSetters, env,
                   lastDel, keyCheck>>

\* A caller that joined: c.wg.Wait() returns once the call is done, and Do
\* returns the call's c.val, c.err.
WaitReturn(c) ==
    /\ pc[c] = "wait"
    /\ WaitOver(c)
    /\ AfterDo(c, DoResult(c))
    /\ UNCHANGED <<defaultKeyPrefix, defaultExpiration, store, sgm, call,
                   CacheRequestTotal, CacheHitTotal, namespace, key, joined,
                   nDeletes, obs>>
    /\ UNCHANGED <<defaultMetricsPrefix, metricsNamespace, nSetters, env,
                   lastDel, keyCheck>>

\* The options are applied and turned into store options (result is always
\* a []byte, so the "result type error" branch is never taken); then
\* err = i.cache.Set(ctx, key, data, setOptions...) and the return.  The
\* entry records the clock at the write and, as history, its writer.
StoreSet(c) ==
    /\ pc[c] = "set"
    /\ \E opts \in OptChoices :
        LET options == applyOptions(opts)
            setOptions == ResolveSetOptions(options, defaultExpiration)
            e == [data |-> DoResult(c).val,
                  expiration |-> setOptions.expiration,
                  tags |-> setOptions.tags,
                  at |-> now,
                  by |-> c]
        IN \E w \in StoreSetResults(store, key[c], e) \cup CtxSetResults(c, store) :
             /\ store' = w.store
             /\ obs' = [obs EXCEPT ![c] =
                    [@ EXCEPT !.setCalls = @ + 1, !.setErr = w.err,
                              !.opts = opts,
                              !.fnCalls = @ + options.FnCalls,
                              !.dflt = defaultExpiration,
                              !.entry = [expiration |-> e.expiration,
                                         tags |-> e.tags, at |-> e.at,
                                         data |-> e.data],
                              !.settersAtSet = nSetters]]
             /\ IF w.err # NoErr
                THEN Return(c, SetErrReturn(DoResult(c).val, w.err))
                ELSE Return(c, MissReturn(DoResult(c).val, DoResult(c).err))
    /\ UNCHANGED <<defaultKeyPrefix, defaultExpiration, sgm, call,
                   CacheRequestTotal, CacheHitTotal, namespace, key, joined,
                   nDeletes>>
    /\ UNCHANGED <<defaultMetricsPrefix, metricsNamespace, nSetters, env,
                   lastDel, keyCheck>>

\* A Delete / DeleteByTags call with the arguments arg that the store
\* answers with w.
Deleted(op, arg, w) ==
    /\ store' = w.store
    /\ nDeletes' = nDeletes + 1
    /\ sinceDelete' = {}
    /\ lastDel' = [op |-> op, arg |-> arg, err |-> w.err,
                   before |-> store, after |-> w.store,
                   keyPrefix |-> defaultKeyPrefix,
                   started |-> {c \in AllCallers : pc[c] # "idle"},
                   loaded |-> {c \in AllCallers : obs[c].loaderRuns > 0},
                   done |-> {c \in AllCallers : pc[c] = "done"},
                   prev |-> [op |-> lastDel.op, arg |-> lastDel.arg,
                             err |-> lastDel.err, before |-> lastDel.before,
                             after |-> lastDel.after]]
    /\ UNCHANGED <<defaultKeyPrefix, defaultExpiration, sgm, call,
                   CacheRequestTotal, CacheHitTotal, pc, namespace, key,
                   joined, ret, typedRet, obs>>
    /\ UNCHANGED <<defaultMetricsPrefix, metricsNamespace, nSetters, env,
                   keyCheck>>

\* Delete(ctx, cacheManager, namespace, key): i.cache.Delete on the composed
\* key, whose error is returned; at most limit calls.
DeleteOp(limit) ==
    /\ nDeletes < limit
    /\ \E ns \in Namespaces, k \in UserKeys :
        LET ck == DeleteKey(defaultKeyPrefix, ns, k) IN
        \E w \in StoreDeleteResults(store, {ck}) : Deleted("Delete", <<ns, k>>, w)

\* DeleteByTags(ctx, cacheManager, tags): i.cache.Invalidate with the tags,
\* whose error is returned; at most limit calls.
DeleteByTagsOp(limit) ==
    /\ nDeletes < limit
    /\ \E tags \in TagLists :
        \E w \in StoreDeleteResults(store, Tagged(store, tags)) :
            Deleted("DeleteByTags", tags, w)

Delete == DeleteOp(MaxDeletes)

DeleteByTags == DeleteByTagsOp(MaxDeletes)

\* The store's clock advances.
Tick ==
    /\ now + TickStep <= MaxTime
    /\ now' = now + TickStep
    /\ UNCHANGED <<store, sgm, call, CacheRequestTotal, CacheHitTotal, pc,
                   namespace, key, joined, ret, typedRet, nDeletes, sinceDelete, obs,
                   cancelled, representation, T, lastDel, config, keyCheck>>

\* The ctx caller c passed to Get is cancelled while the call is in progress:
\* before it enters the group, while its loader runs, while it waits for
\* another caller's loader (or has been woken by its end), or before its Set.
Cancel(c) ==
    /\ pc[c] \in {"do", "loading", "wait", "set"}
    /\ ~cancelled[c]
    /\ cancelled' = [cancelled EXCEPT ![c] = TRUE]
    /\ obs' = [obs EXCEPT ![c] = [@ EXCEPT !.cancelledIn =
                     IF pc[c] = "wait" /\ call[joined[c]].done
                     THEN "woken" ELSE pc[c]]]
    /\ UNCHANGED <<store, sgm, call, CacheRequestTotal, CacheHitTotal, pc,
                   namespace, key, joined, ret, typedRet, nDeletes, sinceDelete, now,
                   representation, T, lastDel, config, keyCheck>>

\* The arguments passed to the setters.
PrefixArgs == {"myapp"}
ExpirationArgs == {OtherExpiration}

\* func SetDefaultKeyPrefix(prefix string) { defaultKeyPrefix = prefix }
SetDefaultKeyPrefix ==
    /\ nSetters < MaxSetterCalls
    /\ \E prefix \in PrefixArgs : defaultKeyPrefix' = prefix
    /\ nSetters' = nSetters + 1
    /\ UNCHANGED <<defaultExpiration, defaultMetricsPrefix, metricsNamespace>>
    /\ UNCHANGED <<store, sgm, call, CacheRequestTotal, CacheHitTotal, pc,
                   namespace, key, joined, ret, typedRet, nDeletes, sinceDelete, obs,
                   env, lastDel, keyCheck>>

\* func SetDefaultExpiration(expiration time.Duration) { defaultExpiration = expiration }
SetDefaultExpiration ==
    /\ nSetters < MaxSetterCalls
    /\ \E expiration \in ExpirationArgs : defaultExpiration' = expiration
    /\ nSetters' = nSetters + 1
    /\ UNCHANGED <<defaultKeyPrefix, defaultMetricsPrefix, metricsNamespace>>
    /\ UNCHANGED <<store, sgm, call, CacheRequestTotal, CacheHitTotal, pc,
                   namespace, key, joined, ret, typedRet, nDeletes, sinceDelete, obs,
                   env, lastDel, keyCheck>>

\* func SetDefaultMetricsPrefix(prefix string) { defaultMetricsPrefix = prefix }
\* The counter vectors were built when the package was initialised and are
\* not touched.
SetDefaultMetricsPrefix ==
    /\ nSetters < MaxSetterCalls
    /\ \E prefix \in PrefixArgs : defaultMetricsPrefix' = prefix
    /\ nSetters' = nSetters + 1
    /\ UNCHANGED <<defaultKeyPrefix, defaultExpiration, metricsNamespace>>
    /\ UNCHANGED <<store, sgm, call, CacheRequestTotal, CacheHitTotal, pc,
                   namespace, key, joined, ret, typedRet, nDeletes, sinceDelete, obs,
                   env, lastDel, keyCheck>>

\* The key composition of Get and Delete applied to two (namespace, key)
\* pairs under the prefix in force.
ComposePairs ==
    /\ composed = <<>>
    /\ composed' = <<ComposeKey(defaultKeyPrefix, pairs[1][1], pairs[1][2]),
                     ComposeKey(defaultKeyPrefix, pairs[2][1], pairs[2][2])>>
    /\ UNCHANGED <<store, sgm, call, CacheRequestTotal, CacheHitTotal, pc,
                   namespace, key, joined, ret, typedRet, nDeletes, sinceDelete, obs,
                   env, lastDel, config, pairs>>

Next ==
    \/ \E c \in Callers : GetLookup(c)
    \/ \E c \in Callers : DoEnter(c)
    \/ \E c \in Callers : DoCall(c)
    \/ \E c \in Callers : WaitReturn(c)
    \/ \E c \in Callers : StoreSet(c)

\* NumCallers concurrent Get calls.
Spec == Init /\ [][Next]_vars

NextFull ==
    \/ \E c \in AllCallers : GetLookup(c)
    \/ \E c \in AllCallers : DoEnter(c)
    \/ \E c \in AllCallers : DoCall(c)
    \/ \E c \in AllCallers : WaitReturn(c)
    \/ \E c \in AllCallers : StoreSet(c)

\* One Get call more.
SpecFull == Init /\ [][NextFull]_vars

NextDel ==
    \/ Next
    \/ Delete
    \/ DeleteByTags

\* The callers' Get calls with Delete / DeleteByTags calls between their steps.
SpecDel == Init /\ [][NextDel]_vars

\* No Get call is in progress.
Quiescent == \A c \in AllCallers : pc[c] \in {"idle", "done"}

NextDelTwice ==
    \/ Next
    \/ Quiescent /\ DeleteOp(MaxDeletes + 1)
    \/ Quiescent /\ DeleteByTagsOp(MaxDeletes + 1)

\* The callers' Get calls, and between them Delete / DeleteByTags calls,
\* one more than MaxDeletes, made while no Get is in progress.
SpecDelTwice == Init /\ [][NextDelTwice]_vars

NextTime ==
    \/ Next
    \/ Tick

\* The callers' Get calls while the store's clock advances.
SpecTime == Init /\ [][NextTime]_vars

NextCancel ==
    \/ Next
    \/ \E c \in Callers : Cancel(c)

\* The callers' Get calls with contexts that are cancelled on the way.
SpecCancel == Init /\ [][NextCancel]_vars

NextConfig ==
    \/ Next
    \/ SetDefaultKeyPrefix
    \/ SetDefaultExpiration
    \/ SetDefaultMetricsPrefix
    \/ Quiescent /\ Delete

\* The callers' Get calls with calls of the setters between their steps, and
\* a Delete call made while no Get is in progress.
SpecConfig == Init /\ [][NextConfig]_vars

\* The (namespace, key) pairs composed: strings of at most MaxLen characters.
InitKey ==
    /\ InitProgram
    /\ representation = "[]byte"
    /\ T = [c \in AllCallers |-> "[]byte"]
    /\ pairs \in (Strings(MaxLen) \X Strings(MaxLen)) \X (Strings(MaxLen) \X Strings(MaxLen))

\* The key composition applied to every two pairs.
SpecKey == InitKey /\ [][ComposePairs]_vars

\* The store is of any kind: it hands back payloads as []byte, as string or
\* as something else.
InitAnyStore ==
    /\ InitProgram
    /\ representation \in Representations
    /\ pairs = <<>>
    /\ T = [c \in AllCallers |-> "[]byte"]

\* The callers' Get calls over a store of any kind.
SpecAnyStore == InitAnyStore /\ [][Next]_vars

\* Each caller calls Get[T] with a type parameter of its own, or
\* CacheManager.Get.
InitTyped ==
    /\ InitProgram
    /\ representation = "[]byte"
    /\ pairs = <<>>
    /\ T \in [AllCallers -> Types \cup {"[]byte"}]
    /\ \A c \in AllCallers \ Callers : T[c] = "[]byte"

\* The callers' Get[T] calls.
SpecTyped == InitTyped /\ [][Next]_vars

\* Every store call and every loader returns, and a goroutine that can run
\* does run: no step of a Get call stays enabled for ever without being
\* taken.
Fairness ==
    \A c \in Callers :
        /\ WF_vars(DoEnter(c))
        /\ WF_vars(DoCall(c))
        /\ WF_vars(WaitReturn(c))
        /\ WF_vars(StoreSet(c))

\* The callers' Get calls, scheduled fairly.
SpecLive == Init /\ [][Next]_vars /\ Fairness

(* ------------------------------ claims -------------------------------- *)

Started(c) == pc[c] # "idle"
Done(c) == pc[c] = "done"

\* Caller c's lookup found no entry / failed in the store.
Missed(c) == Started(c) /\ IsNotFound(obs[c].getErr)
LookupFailed(c) == Started(c) /\ obs[c].getErr # NoErr /\ ~IsNotFound(obs[c].getErr)

\* Caller c's lookup found an entry, in a representation Get returns as
\* bytes / in one it does not support.
Readable(c) == Started(c) /\ obs[c].getErr = NoErr /\ obs[c].rep \in {"[]byte", "string"}
Unreadable(c) == Started(c) /\ obs[c].getErr = NoErr /\ obs[c].rep = "other"

\* The two calls were in progress at the same time.
Overlap(c, d) ==
    Started(c) /\ Started(d) /\ c \notin obs[d].before /\ d \notin obs[c].before

\* Caller c joined a call in flight that another caller leads.
Coalesced(c) == joined[c] # 0 /\ joined[c] # c

\* Caller c's own loader ran and returned an error.
LoaderFailed(c) == obs[c].loaderRuns = 1 /\ call[c].done /\ obs[c].fn.err # NoErr

\* Caller c issued a Set and the store failed it / accepted it.
SetFailed(c) == obs[c].setCalls = 1 /\ obs[c].setErr # NoErr
SetSucceeded(c) == obs[c].setCalls = 1 /\ obs[c].setErr = NoErr

\* C1 (as claimed): of two Get calls for the same composed key that are in
\* progress at the same time and whose lookups both found no entry, only one
\* runs a loader, exactly one loader has run once both have returned, and
\* both return the same payload when neither returns an error.
C1_Dedup ==
    \A c \in AllCallers, d \in AllCallers :
        (c # d /\ Overlap(c, d) /\ key[c] = key[d] /\ Missed(c) /\ Missed(d))
        => /\ obs[c].loaderRuns + obs[d].loaderRuns <= 1
           /\ (Done(c) /\ Done(d)) => obs[c].loaderRuns + obs[d].loaderRuns = 1
           /\ (Done(c) /\ Done(d) /\ ret[c].err = NoErr /\ ret[d].err = NoErr)
              => ret[c].value = ret[d].value

\* C2: in every reachable state at most one loader is running per composed
\* key, and the caller running it is the one registered in the in-flight
\* table for that key.
C2_OneLoaderPerKey ==
    \A c \in AllCallers :
        pc[c] = "loading"
        => /\ key[c] \in DOMAIN sgm /\ sgm[key[c]] = c
           /\ \A d \in AllCallers \ {c} : pc[d] = "loading" => key[d] # key[c]

\* C2's case: a caller reached the coalescer while another ran the loader
\* for the same key, and waits instead of loading.
C2_Witness ==
    \E c \in AllCallers, d \in AllCallers :
        c # d /\ key[c] = key[d] /\ pc[c] = "loading" /\ pc[d] = "wait"

\* C3: a caller that joined a call in flight for its key stays blocked until
\* that call is done, never runs its own loader, and returns what that
\* execution produced: on its failure the execution's error, a nil value,
\* not cached, and no Set; on its success the execution's payload (when the
\* caller's own Set succeeds).
C3_Coalesced ==
    \A d \in AllCallers :
        Coalesced(d)
        => /\ key[joined[d]] = key[d]
           /\ obs[d].loaderRuns = 0
           /\ pc[d] # "wait" => call[joined[d]].done
           /\ Done(d)
              => IF obs[joined[d]].fn.err # NoErr
                 THEN /\ ret[d] = [value |-> Nil, err |-> obs[joined[d]].fn.err,
                                   cached |-> FALSE]
                      /\ obs[d].setCalls = 0
                 ELSE /\ obs[d].setCalls = 1
                      /\ SetSucceeded(d)
                         => ret[d].value = obs[joined[d]].fn.d /\ ret[d].err = NoErr

\* C3's case: a caller coalesced onto an execution that failed has returned.
C3_Witness ==
    \E d \in AllCallers :
        Coalesced(d) /\ Done(d) /\ obs[joined[d]].fn.err # NoErr

\* C4 (as claimed): once a Get that wrote its value has returned without
\* error, a Get for the same composed key that is called later, with no
\* Delete or DeleteByTags in between, never runs its loader and, unless its
\* lookup fails in the store or hands back a payload of an unsupported
\* type, reports cached and returns the value the earlier call returned.
C4_HitSkipsLoader ==
    \A c \in AllCallers, d \in AllCallers :
        (Started(d) /\ c \in obs[d].before /\ c \in obs[d].beforeClean
         /\ key[c] = key[d] /\ SetSucceeded(c) /\ ret[c].err = NoErr)
        => /\ obs[d].loaderRuns = 0
           /\ ~Coalesced(d)
           /\ (Done(d) /\ ~LookupFailed(d) /\ ~Unreadable(d))
              => ret[d].cached /\ ret[d].value = ret[c].value

\* C5: a Get that returns after a successful Set returns exactly the payload
\* produced by the loader execution it was part of (its own or the one it
\* was coalesced onto), with no error and cached = false.
C5_MissReportsFalse ==
    \A c \in AllCallers :
        (Done(c) /\ SetSucceeded(c))
        => ret[c] = [value |-> obs[joined[c]].fn.d, err |-> NoErr, cached |-> FALSE]

\* C5's case: a leader and a caller coalesced onto its execution have both
\* written and returned.
C5_Witness ==
    \E c \in AllCallers, d \in AllCallers :
        /\ Coalesced(d) /\ joined[d] = c
        /\ Done(c) /\ SetSucceeded(c) /\ Done(d) /\ SetSucceeded(d)

\* C6: when a caller's loader returns an error, its Get returns that very
\* error with a nil value and cached = false, and has issued no Set.
C6_LoaderFailure ==
    \A c \in AllCallers :
        LoaderFailed(c)
        => /\ Done(c)
           /\ ret[c] = [value |-> Nil, err |-> obs[c].fn.err, cached |-> FALSE]
           /\ obs[c].setCalls = 0

\* C6's case: a loader has failed and its Get has returned, the key absent.
C6_Witness ==
    \E c \in AllCallers :
        LoaderFailed(c) /\ Done(c) /\ key[c] \notin DOMAIN store

\* The calls made for caller d's key so far are d and calls that returned
\* before d was called without having issued a Set, one of them after its
\* own loader failed.
AfterLoaderFailure(d) ==
    /\ \E c \in obs[d].before : key[c] = key[d] /\ LoaderFailed(c)
    /\ \A e \in AllCallers \ {d} :
          (Started(e) /\ key[e] = key[d])
          => e \in obs[d].before /\ obs[e].setCalls = 0

\* C7: a Get called after a Get for the same key whose loader failed (no
\* other call having written the key) runs its own loader, unless its lookup
\* fails in the store; when that loader and the Set succeed it returns the
\* loader's value with cached = false.
C7_LoaderErrorNotCached ==
    \A d \in AllCallers :
        (Done(d) /\ AfterLoaderFailure(d) /\ ~LookupFailed(d))
        => /\ obs[d].loaderRuns = 1
           /\ ~Coalesced(d)
           /\ (obs[d].fn.err = NoErr /\ SetSucceeded(d))
              => ret[d] = [value |-> obs[d].fn.d, err |-> NoErr, cached |-> FALSE]

\* C7's case: after a failed loader, a later Get for the key has run its
\* loader and returned its value.
C7_Witness ==
    \E d \in AllCallers :
        /\ Done(d) /\ AfterLoaderFailure(d)
        /\ obs[d].loaderRuns = 1 /\ obs[d].fn.err = NoErr /\ SetSucceeded(d)

\* C8: when the lookup fails in the store (not with not-found), Get returns
\* that error with a nil value and cached = false, having run no loader,
\* not entered the coalescer and issued no Set.
C8_StoreFaultOnLookup ==
    \A c \in AllCallers :
        LookupFailed(c)
        => /\ Done(c)
           /\ ret[c] = [value |-> Nil, err |-> obs[c].getErr, cached |-> FALSE]
           /\ obs[c].loaderRuns = 0
           /\ joined[c] = 0
           /\ obs[c].setCalls = 0

\* C8's case: a lookup has failed in the store while another caller's
\* execution for the same key is in flight.
C8_Witness ==
    \E c \in AllCallers, d \in AllCallers :
        LookupFailed(c) /\ key[d] = key[c] /\ pc[d] = "loading"

\* C9: when the Set fails after the loader succeeded, Get returns the Set's
\* error and cached = false.
C9_WriteFailureSurfaced ==
    \A c \in AllCallers :
        SetFailed(c)
        => /\ Done(c)
           /\ obs[joined[c]].fn.err = NoErr
           /\ ret[c].err = obs[c].setErr
           /\ ret[c].cached = FALSE

\* C9's case: after a Get whose Set failed has returned, a following Get for
\* the same key finds no entry.
C9_Witness ==
    \E c \in AllCallers, d \in AllCallers :
        /\ SetFailed(c) /\ Done(c)
        /\ c \in obs[d].before /\ key[d] = key[c] /\ Missed(d)

\* C10 (as claimed): when the Set fails after the loader succeeded, Get
\* returns the computed payload together with the Set's error.
C10_ReturnsBoth ==
    \A c \in AllCallers :
        (Done(c) /\ SetFailed(c))
        => ret[c].value = obs[joined[c]].fn.d /\ ret[c].err = obs[c].setErr

\* C10 (amended): when the Set fails after the loader succeeded, Get returns
\* a nil value together with the Set's error: the computed payload is
\* discarded.
C10_ValueDiscarded ==
    \A c \in AllCallers :
        (Done(c) /\ SetFailed(c))
        => /\ obs[joined[c]].fn.d \in Payloads
           /\ ret[c].value = Nil
           /\ ret[c].err = obs[c].setErr

\* C10's case: a Set has failed for a payload the caller's own loader produced.
C10_Witness ==
    \E c \in AllCallers :
        Done(c) /\ SetFailed(c) /\ ~Coalesced(c) /\ obs[c].fn.d \in Payloads


(* ------------------------ claims C11 .. C20 ---------------------------- *)

\* Caller d is the first to call Get for its key after a Delete /
\* DeleteByTags call that returned no error.
FirstAfter(d, op) ==
    /\ Started(d) /\ d \notin obs[d].del.started
    /\ obs[d].del.op = op /\ obs[d].del.err = NoErr
    /\ \A e \in AllCallers \ {d} :
          (Started(e) /\ key[e] = key[d]) => (e \in obs[d].del.started \/ e > d)

\* No Get call for caller d's key was in progress when that call ran.
NoneInProgress(d) ==
    \A e \in obs[d].del.started : key[e] = key[d] => e \in obs[d].del.done

\* The entry bears one of the tags.
HasTag(e, tags) == \E i \in 1..Len(e.tags), j \in 1..Len(tags) : e.tags[i] = tags[j]

\* The loader execution caller d is part of started after the last Delete /
\* DeleteByTags call made before d called Get.
FreshExecution(d) ==
    /\ joined[d] # 0 /\ obs[joined[d]].loaderRuns = 1
    /\ joined[d] \notin obs[d].del.loaded

\* C11: when DeleteByTags(tags) has returned no error and no Get for the key
\* was in progress meanwhile, the next Get for a key whose entry bore one of
\* the tags is not a hit: it misses (or its lookup fails), reports cached =
\* false and a loader started after the call runs for it (its own when no
\* other Get for the key runs beside it); the next Get for a key whose
\* entry bore none of the tags is a hit that returns the stored value, unless
\* its lookup fails.
C11_TagInvalidation ==
    \A d \in AllCallers :
        (FirstAfter(d, "DeleteByTags") /\ NoneInProgress(d)
         /\ key[d] \in DOMAIN obs[d].del.before)
        => LET e == obs[d].del.before[key[d]] IN
           IF HasTag(e, obs[d].del.arg)
           THEN /\ obs[d].getErr # NoErr
                /\ Done(d) => ~ret[d].cached
                /\ (Done(d) /\ Missed(d)) => FreshExecution(d)
                /\ (Done(d) /\ Missed(d) /\ \A x \in AllCallers \ {d} :
                                               Started(x) /\ key[x] = key[d]
                                               => x \in obs[d].before)
                   => obs[d].loaderRuns = 1
           ELSE ~LookupFailed(d)
                => /\ Done(d) /\ ret[d] = [value |-> e.data, err |-> NoErr, cached |-> TRUE]
                   /\ obs[d].loaderRuns = 0 /\ joined[d] = 0

\* C11's case: an entry written with the tag was invalidated, and the next
\* Get for its key has missed, run its loader and written the value.
C11_Witness ==
    \E d \in AllCallers :
        /\ FirstAfter(d, "DeleteByTags") /\ NoneInProgress(d)
        /\ key[d] \in DOMAIN obs[d].del.before
        /\ HasTag(obs[d].del.before[key[d]], obs[d].del.arg)
        /\ Done(d) /\ obs[d].loaderRuns = 1 /\ SetSucceeded(d)
        /\ ret[d].cached = FALSE

\* What C12 says of caller d: it reports cached = false, and what it
\* returns without error is what a loader executed after the Delete returned.
AfterDeleteMisses(d) ==
    /\ Done(d) => ~ret[d].cached
    /\ (Done(d) /\ ret[d].err = NoErr)
       => FreshExecution(d) /\ ret[d].value = obs[joined[d]].fn.d

\* C12 (as claimed): the first Get for (namespace, key) called after
\* Delete(namespace, key) has returned no error reports cached = false and
\* returns the value of a loader executed after the Delete, also when other
\* Get calls for the key were in progress while Delete ran.
C12_DeleteThenMiss ==
    \A d \in AllCallers :
        (FirstAfter(d, "Delete") /\ obs[d].del.arg = obs[d].arg)
        => AfterDeleteMisses(d)

\* C12 (amended): the same, when no Get call for the key was in progress
\* while Delete ran.
C12_DeleteThenMissQuiet ==
    \A d \in AllCallers :
        (FirstAfter(d, "Delete") /\ obs[d].del.arg = obs[d].arg /\ NoneInProgress(d))
        => /\ AfterDeleteMisses(d)
           /\ obs[d].getErr # NoErr

\* C12's case: an entry was deleted with no Get in progress, and the next
\* Get for the key has returned a value loaded after the Delete.
C12_Witness ==
    \E d \in AllCallers :
        /\ FirstAfter(d, "Delete") /\ obs[d].del.arg = obs[d].arg /\ NoneInProgress(d)
        /\ key[d] \in DOMAIN obs[d].del.before
        /\ Done(d) /\ ret[d].err = NoErr /\ ret[d].value # obs[d].del.before[key[d]].data

\* The last Delete / DeleteByTags call was not failed by the store.
StoreAnswered == lastDel.op # "none" /\ lastDel.err # DeleteFault

\* The last call repeats the call before it, which returned no error, with
\* no store write in between.
Repeated ==
    /\ lastDel.prev.op = lastDel.op /\ lastDel.prev.arg = lastDel.arg
    /\ lastDel.prev.err = NoErr /\ lastDel.before = lastDel.prev.after

PassedExpiration(opts, d) ==
    \E i \in 1..Len(opts) :
        /\ opts[i].opt = "expiration" /\ opts[i].expiration = d
        /\ \A j \in (i + 1)..Len(opts) : opts[j].opt # "expiration"

\* Caller g's lookup found the entry caller c wrote with expiration d, t
\* minutes old.
FoundEntryOf(g, c, d) ==
    /\ Done(c) /\ SetSucceeded(c) /\ PassedExpiration(obs[c].opts, d)
    /\ Started(g) /\ obs[g].saw = c

Age(g, c) == obs[g].lookupAt - obs[c].entry.at

\* C14: as long as the entry a Get wrote with WithExpiration(d) is the one
\* the store holds for the key, a Get made before d has elapsed since the
\* write is a hit that returns the value written, and a Get made after d has
\* elapsed misses, reports cached = false and has a loader executed (each
\* unless its lookup fails in the store).
C14_Expiration ==
    \A c \in AllCallers, g \in AllCallers :
        FoundEntryOf(g, c, ShortExpiration)
        => /\ Age(g, c) < ShortExpiration
              => (~LookupFailed(g)
                  => /\ Done(g) /\ obs[g].loaderRuns = 0 /\ joined[g] = 0
                     /\ ret[g] = [value |-> ret[c].value, err |-> NoErr, cached |-> TRUE])
           /\ Age(g, c) > ShortExpiration
              => /\ obs[g].getErr # NoErr
                 /\ Done(g) => ~ret[g].cached
                 /\ (Done(g) /\ Missed(g))
                    => joined[g] # 0 /\ obs[joined[g]].loaderRuns = 1

\* C14's case: a Get made after the expiration passed with WithExpiration
\* has elapsed has missed the entry, run its loader and returned its value.
C14_Witness ==
    \E c \in AllCallers, g \in AllCallers :
        /\ FoundEntryOf(g, c, ShortExpiration) /\ Age(g, c) > ShortExpiration
        /\ Done(g) /\ Missed(g) /\ obs[g].loaderRuns = 1 /\ ret[g].err = NoErr

\* The options passed hold n WithDynamicTags options.
RECURSIVE DynamicOptions(_)
DynamicOptions(opts) ==
    IF opts = <<>> THEN 0
    ELSE (IF Head(opts).opt = "dynamic" THEN 1 ELSE 0) + DynamicOptions(Tail(opts))

\* C15: in one Get call the fn of a WithDynamicTags option is called at most
\* once, and only when the loader execution succeeded and the Get issues its
\* Set; it is not called in a Get that is a hit, whose lookup fails in the
\* store or whose loader execution fails.
C15_DynamicTagsLazy ==
    \A c \in AllCallers :
        /\ obs[c].fnCalls <= 1
        /\ obs[c].fnCalls = DynamicOptions(obs[c].opts)
        /\ obs[c].fnCalls > 0
           => /\ Missed(c) /\ joined[c] # 0
              /\ call[joined[c]].done /\ obs[joined[c]].fn.err = NoErr
              /\ obs[c].setCalls = 1
        /\ (Started(c) /\ (obs[c].getErr = NoErr \/ LookupFailed(c)))
           => obs[c].fnCalls = 0
        /\ (Done(c) /\ joined[c] # 0 /\ obs[joined[c]].fn.err # NoErr)
           => obs[c].fnCalls = 0

\* C15's case: a caller coalesced onto another's execution has called the fn
\* of its own WithDynamicTags option once and written the entry with the tag.
C15_Witness ==
    \E c \in AllCallers :
        /\ Coalesced(c) /\ Done(c) /\ SetSucceeded(c) /\ obs[c].fnCalls = 1
        /\ key[c] \in DOMAIN store /\ store[key[c]].by = c
        /\ HasTag(store[key[c]], <<"teamId:1">>)

\* C16: two distinct (namespace, key) pairs, also pairs whose strings
\* contain the separator ":", are composed into distinct store keys, and
\* equal pairs into the same store key.
C16_DistinctKeys ==
    composed # <<>>
    => /\ pairs[1] # pairs[2] => composed[1] # composed[2]
       /\ pairs[1] = pairs[2] => composed[1] = composed[2]

\* Two distinct pairs with the separator in them have been composed into
\* one store key.
C16_Collision ==
    /\ composed # <<>>
    /\ pairs[1] = <<"a", ":a">> /\ pairs[2] = <<"a:", "a">>
    /\ composed[1] = composed[2]

\* Caller c's ctx was cancelled while c was blocked: in its own loader, or
\* waiting in the group for a loader that had not returned.
CancelledBlocked(c) == obs[c].cancelledIn \in {"loading", "wait"}

\* C17 as stated: a Get whose ctx is cancelled while it is blocked in its
\* loader or waiting in the group returns a cancellation error.
C17_CancelReturns ==
    \A c \in AllCallers :
        (CancelledBlocked(c) /\ Done(c)) => ret[c].err = Canceled

\* C17: ctx is handed to the store's Get and Set only.  A Get whose ctx is
\* cancelled while it is blocked in its loader or waiting in the group stays
\* blocked until the loader execution has finished and goes on with its
\* result: it returns the execution's error, or issues its Set and returns
\* the value unless the Set fails; a cancellation error is returned only
\* when the store's Set returns it.
C17_CancelWaits ==
    \A c \in AllCallers :
        CancelledBlocked(c)
        => /\ joined[c] # 0
           /\ pc[c] \notin {"loading", "wait"}
              => call[joined[c]].done /\ obs[joined[c]].loaderRuns = 1
           /\ Done(c)
              => IF obs[joined[c]].fn.err # NoErr
                 THEN /\ ret[c] = [value |-> Nil, err |-> obs[joined[c]].fn.err,
                                   cached |-> FALSE]
                      /\ obs[c].setCalls = 0
                 ELSE /\ obs[c].setCalls = 1
                      /\ ret[c].err = obs[c].setErr
                      /\ ret[c].err = NoErr
                         => /\ ret[c].value = obs[joined[c]].fn.d
                            /\ ~ret[c].cached

\* C17's case: a caller whose ctx was cancelled while it waited for another
\* caller's loader has returned that loader's value without error.
C17_Witness ==
    \E c \in AllCallers :
        /\ obs[c].cancelledIn = "wait" /\ Coalesced(c) /\ Done(c)
        /\ ret[c].err = NoErr /\ ret[c].value \in Payloads

\* The options passed carry no positive expiration.
NoExpirationPassed(opts) ==
    \A i \in 1..Len(opts) : opts[i].opt = "expiration" => opts[i].expiration <= 0

\* The store key composed from the arguments arg under prefix p.
KeyUnder(p, arg) == p \o ":" \o arg[1] \o ":" \o arg[2]

\* C18: a Get composes its key with the key prefix in force when it is
\* called, and so does a Delete; a hit is on an entry written under the same
\* prefix, never on one written under an earlier prefix; and a Set whose
\* options carry no positive expiration uses the default expiration in
\* force when it is issued.
C18_ReadAtCallTime ==
    /\ \A c \in AllCallers :
          Started(c) => key[c] = KeyUnder(obs[c].keyPrefix, obs[c].arg)
    /\ \A g \in AllCallers, c \in AllCallers :
          (Started(g) /\ obs[g].getErr = NoErr /\ obs[g].saw = c)
          => obs[c].keyPrefix = obs[g].keyPrefix
    /\ \A c \in AllCallers :
          (obs[c].setCalls = 1 /\ NoExpirationPassed(obs[c].opts))
          => obs[c].entry.expiration = obs[c].dflt
    /\ lastDel.op = "Delete"
       => LET ck == KeyUnder(lastDel.keyPrefix, lastDel.arg) IN
          /\ \A x \in DOMAIN lastDel.before \ {ck} : x \in DOMAIN lastDel.after
          /\ lastDel.err = NoErr => ck \notin DOMAIN lastDel.after

\* C18's case: after SetDefaultKeyPrefix a Get for a pair whose entry an
\* earlier Get wrote under the old prefix has found no entry, although the
\* old entry is still in the store.
C18_Witness ==
    \E c \in AllCallers, g \in AllCallers :
        /\ Done(c) /\ SetSucceeded(c) /\ Done(g) /\ c \in obs[g].before
        /\ obs[c].arg = obs[g].arg /\ obs[c].keyPrefix # obs[g].keyPrefix
        /\ obs[g].keyPrefix = defaultKeyPrefix
        /\ obs[g].getErr = NotFound
        /\ key[c] \in DOMAIN store /\ store[key[c]].by = c

\* C19: the counters a Get increments are those whose names carry the
\* metrics prefix in force when the Get is called.
C19_MetricsPrefix ==
    \A c \in AllCallers :
        Started(c) => obs[c].countedUnder = obs[c].metricsPrefix

\* The calls started with namespace n.
CallsOf(n) == {c \in AllCallers : Started(c) /\ namespace[c] = n}

\* C20 as stated: the hit counter of a namespace is the number of Get calls
\* with that namespace that returned cached = true.
C20_HitsAreCachedReturns ==
    \A n \in Namespaces :
        CacheHitTotal[n] = Cardinality({c \in CallsOf(n) : Done(c) /\ ret[c].cached})

\* C20: the request counter of a namespace is the number of Get calls
\* started with it, whatever their outcome; the hit counter is the number of
\* those whose lookup found an entry, which are the calls that returned
\* cached = true and those that failed on an unsupported payload type; and
\* the hit counter never exceeds the request counter.
C20_Counters ==
    \A n \in Namespaces :
        /\ CacheRequestTotal[n] = Cardinality(CallsOf(n))
        /\ CacheHitTotal[n] = Cardinality({c \in CallsOf(n) : obs[c].getErr = NoErr})
        /\ {c \in CallsOf(n) : obs[c].getErr = NoErr}
              = {c \in CallsOf(n) : Done(c) /\ ret[c].cached}
                \cup {c \in CallsOf(n) : Done(c) /\ ret[c].err = Unsupported}
        /\ CacheHitTotal[n] <= CacheRequestTotal[n]

\* C20's case: both callers have returned, one after a miss and one on an
\* entry whose payload has an unsupported type, and the hit counter is one
\* although no call returned cached = true.
C20_Witness ==
    \E c \in AllCallers, d \in AllCallers :
        /\ Done(c) /\ Done(d) /\ namespace[c] = namespace[d]
        /\ Missed(c) /\ Unreadable(d)
        /\ ~ret[c].cached /\ ~ret[d].cached
        /\ CacheRequestTotal[namespace[c]] = 2 /\ CacheHitTotal[namespace[c]] = 1

\* Caller c called Get[T].
Typed(c) == T[c] # "[]byte"

\* The errors json.Unmarshal returns.
DecodeErrors == {SyntaxErr, TypeErr}

\* C21: when CacheManager.Get returns bytes without error and they are not
\* JSON for a T, Get[T] returns the error of json.Unmarshal with the cached
\* flag CacheManager.Get reported, true when the bytes came from a hit; an
\* error of CacheManager.Get is returned with its cached flag as well; and
\* when json.Marshal fails on fn's value, the caller whose loader it was and
\* the callers coalesced onto it return that error with cached = false and
\* issue no Set.
C21_TypedFailures ==
    \A c \in AllCallers :
        (Typed(c) /\ Done(c))
        => /\ typedRet[c].cached = ret[c].cached
           /\ ret[c].err # NoErr => typedRet[c].err = ret[c].err
           /\ (ret[c].err = NoErr /\ JSONKind(ret[c].value) = "invalid")
              => typedRet[c].err = SyntaxErr
           /\ (ret[c].err = NoErr
               /\ JSONKind(ret[c].value) \in {"string", "number"}
               /\ JSONKind(ret[c].value) # (IF T[c] = "string" THEN "string" ELSE "number"))
              => typedRet[c].err = TypeErr
           /\ (typedRet[c].err \in DecodeErrors /\ obs[c].getErr = NoErr)
              => typedRet[c].cached
           /\ (joined[c] # 0 /\ obs[joined[c]].fn.err = MarshalErr)
              => /\ typedRet[c] = [value |-> Zero(T[c]), err |-> MarshalErr,
                                   cached |-> FALSE]
                 /\ obs[c].setCalls = 0

\* C21's case: a Get[T] was a hit on an entry that a Get of another type
\* wrote under the same key and has returned the type error with
\* cached = true.
C21_Witness ==
    \E c \in AllCallers, w \in AllCallers :
        /\ Typed(c) /\ Typed(w) /\ T[c] # T[w] /\ Done(c)
        /\ obs[c].getErr = NoErr /\ obs[c].saw = w
        /\ typedRet[c].err = TypeErr /\ typedRet[c].cached

\* Caller c's own loader ran and returned the empty payload without error.
LoadedEmpty(c) ==
    /\ T[c] = "[]byte" /\ obs[c].loaderRuns = 1 /\ call[c].done
    /\ obs[c].fn = [d |-> "", err |-> NoErr]

\* C22: a caller whose loader returns the empty payload without error goes
\* on to its Set like any other; when the Set succeeds the entry holds the
\* empty payload and the caller returns it with no error and cached =
\* false; and a later Get whose lookup finds that entry returns the empty
\* payload with no error and cached = true without a loader run.
C22_EmptyPayload ==
    \A c \in AllCallers :
        LoadedEmpty(c)
        => /\ call[c].val = "" /\ call[c].err = NoErr
           /\ pc[c] \in {"set", "done"}
           /\ Done(c) => obs[c].setCalls = 1
           /\ (Done(c) /\ SetSucceeded(c))
              => ret[c] = [value |-> "", err |-> NoErr, cached |-> FALSE]
           /\ \A g \in AllCallers :
                 (Started(g) /\ obs[g].saw = c /\ SetSucceeded(c) /\ ~LookupFailed(g))
                 => /\ Done(g) /\ obs[g].loaderRuns = 0 /\ joined[g] = 0
                    /\ ret[g] = [value |-> "", err |-> NoErr, cached |-> TRUE]

\* C22's case: a loader has returned the empty payload, its caller has
\* written and returned it, and a later Get has been a hit on it.
C22_Witness ==
    \E c \in AllCallers, g \in AllCallers :
        /\ LoadedEmpty(c) /\ Done(c) /\ SetSucceeded(c) /\ ret[c].value = ""
        /\ c \in obs[g].before /\ obs[g].saw = c
        /\ Done(g) /\ ret[g].cached /\ ret[g].value = ""

\* The outcomes of a Get call that has returned.
OutcomeHit(c) == ret[c].err = NoErr /\ ret[c].cached /\ joined[c] = 0
OutcomeComputed(c) ==
    /\ ret[c].err = NoErr /\ ~ret[c].cached
    /\ joined[c] # 0 /\ ret[c].value = call[joined[c]].val
OutcomeError(c) == ret[c].err # NoErr

\* C23: every Get call that has been made returns (the store's calls and
\* the loaders returning, the goroutines being scheduled); a caller waiting
\* in the group leaves it once the execution it waits on is done; and a
\* call that has returned has exactly one of the outcomes hit, computed
\* miss, error.
C23_EveryGetResolves ==
    /\ \A c \in Callers : (pc[c] # "idle") ~> (pc[c] = "done")
    /\ \A c \in Callers :
          (pc[c] = "wait" /\ call[joined[c]].done) ~> (pc[c] # "wait")
    /\ [](\A c \in Callers :
            pc[c] = "done"
            => \/ OutcomeHit(c) /\ ~OutcomeComputed(c) /\ ~OutcomeError(c)
               \/ ~OutcomeHit(c) /\ OutcomeComputed(c) /\ ~OutcomeError(c)
               \/ ~OutcomeHit(c) /\ ~OutcomeComputed(c) /\ OutcomeError(c))

\* C23's case: every caller has returned, one of them after waiting in the
\* group for another's loader.
C23_Witness ==
    /\ \A c \in Callers : pc[c] = "done"
    /\ \E c \in Callers : joined[c] \notin {0, c} /\ OutcomeComputed(c)

\* The callers that took part in the loader execution of leader l, and the
\* Sets they have issued.
Sharers(l) == {c \in AllCallers : joined[c] = l}
SetsAfter(l) == {c \in Sharers(l) : obs[c].setCalls > 0}

\* C24 as stated: after one loader execution, however many callers share
\* it, at most one Set is issued.
C24_OneSetPerExecution ==
    \A l \in AllCallers : Cardinality(SetsAfter(l)) <= 1

\* C24: a Get call issues at most one Set, and issues it only after a
\* loader execution it took part in has succeeded; every caller that shares
\* a successful execution issues a Set of its own before it returns, so an
\* execution is followed by as many Sets as callers share it.
C24_OneSetPerCaller ==
    /\ \A c \in AllCallers :
          /\ obs[c].setCalls <= 1
          /\ obs[c].setCalls = 1
             => /\ joined[c] # 0 /\ call[joined[c]].done
                /\ obs[joined[c]].fn.err = NoErr
          /\ (Done(c) /\ joined[c] # 0 /\ obs[joined[c]].fn.err = NoErr)
             => obs[c].setCalls = 1
    /\ \A l \in AllCallers :
          (\A c \in Sharers(l) : Done(c)) /\ call[l].done /\ obs[l].fn.err = NoErr
          => SetsAfter(l) = Sharers(l)

\* C24's case: two callers have shared one successful loader execution and
\* each has issued a Set.
C24_Witness ==
    \E l \in AllCallers, c \in AllCallers :
        /\ c # l /\ {l, c} \subseteq SetsAfter(l)
        /\ obs[l].loaderRuns = 1 /\ obs[c].loaderRuns = 0
        /\ Done(l) /\ Done(c)

\* C25: the in-flight table holds a call for a key only while the loader of
\* the caller that registered it is running; when the loader has returned,
\* with a value or an error, the call is out of the table; a caller that
\* enters the group after that starts an execution of its own; and when no
\* Get is in progress the table is empty.
C25_TokensRetired ==
    /\ \A k \in DOMAIN sgm :
          /\ key[sgm[k]] = k /\ pc[sgm[k]] = "loading"
          /\ ~call[sgm[k]].done /\ joined[sgm[k]] = sgm[k]
    /\ \A c \in AllCallers :
          call[c].done => (key[c] \notin DOMAIN sgm \/ sgm[key[c]] # c)
    /\ \A c \in AllCallers : ~obs[c].joinedDone
    /\ \A c \in AllCallers, l \in AllCallers :
          (joined[c] = l /\ c # l) => l \notin obs[c].before
    /\ (\A c \in AllCallers : pc[c] \in {"idle", "done"}) => sgm = <<>>

\* C25's case: a loader execution has failed and its call has been taken
\* out of the table, and a caller that entered the group afterwards has
\* run a loader of its own for the same key.
C25_Witness ==
    \E l \in AllCallers, c \in AllCallers :
        /\ c # l /\ key[c] = key[l]
        /\ call[l].done /\ obs[l].fn.err # NoErr
        /\ joined[c] = c /\ call[c].done /\ obs[c].loaderRuns = 1
        /\ l \in obs[c].before
        /\ sgm = <<>>

\* A loader for the (namespace, key) pair of caller c is running.
LoaderRunningFor(c) ==
    \E l \in AllCallers : pc[l] = "loading" /\ obs[l].arg = obs[c].arg

\* C26: a caller takes part only in a loader execution for its own
\* (namespace, key) pair and composed key, so it never waits for the loader
\* of another key; a caller about to enter the group while no loader runs
\* for its pair can start its own loader, whatever runs for other keys; and
\* a running loader can return, whatever else is running.
C26_KeysIndependent ==
    \A c \in AllCallers :
        /\ joined[c] # 0
           => key[joined[c]] = key[c] /\ obs[joined[c]].arg = obs[c].arg
        /\ (pc[c] = "do" /\ ~LoaderRunningFor(c))
           => ENABLED (DoEnter(c) /\ pc'[c] = "loading")
        /\ pc[c] = "loading"
           => ENABLED (DoCall(c) /\ call'[c].done /\ pc'[c] # "loading")

\* C26's case: the loader of the caller that called Get first is still
\* running, and a caller for another key has meanwhile run its own loader
\* and returned its value.
C26_Witness ==
    \E a \in AllCallers, b \in AllCallers :
        /\ a < b /\ key[a] # key[b]
        /\ pc[a] = "loading"
        /\ Done(b) /\ obs[b].loaderRuns = 1 /\ ret[b].err = NoErr /\ ~ret[b].cached

\* The content of the entry caller c's lookup found: what its writer's
\* loader execution returned.
ContentFound(c) == obs[joined[obs[c].saw]].fn.d

\* C27: a Get whose lookup finds an entry that the store hands back as
\* []byte or as string returns the entry's content with no error and
\* cached = true; one whose lookup finds an entry that the store hands back
\* as anything else returns nil, the unsupported data type error and
\* cached = false; neither runs a loader, enters the group or issues a Set.
C27_HitNormalization ==
    \A c \in AllCallers :
        (Started(c) /\ obs[c].getErr = NoErr)
        => /\ Done(c) /\ obs[c].saw # 0
           /\ obs[c].loaderRuns = 0 /\ joined[c] = 0 /\ obs[c].setCalls = 0
           /\ obs[c].rep \in {"[]byte", "string"}
              => ret[c] = [value |-> ContentFound(c), err |-> NoErr, cached |-> TRUE]
           /\ obs[c].rep \notin {"[]byte", "string"}
              => ret[c] = [value |-> Nil, err |-> Unsupported, cached |-> FALSE]

\* C27's case: a Get over a store that hands back strings has returned the
\* content another Get's loader wrote, with cached = true.
C27_Witness ==
    \E c \in AllCallers :
        /\ Done(c) /\ obs[c].getErr = NoErr /\ obs[c].rep = "string"
        /\ ret[c].cached /\ ret[c].value = "Alice" /\ ContentFound(c) = "Alice"

\* C28: a Get that returns an error returns a nil payload and cached =
\* false, whether the lookup failed, the payload type was unsupported, the
\* loader failed or the Set failed; a Get that returns cached = true
\* returns no error and has neither run a loader nor waited for one.
C28_ErrorMeansNoValue ==
    \A c \in AllCallers :
        Done(c)
        => /\ ret[c].err # NoErr => (ret[c].value = Nil /\ ~ret[c].cached)
           /\ ret[c].cached
              => /\ ret[c].err = NoErr
                 /\ obs[c].loaderRuns = 0 /\ joined[c] = 0

\* C28's case: over a store that hands back an unsupported type, one caller
\* has returned the unsupported data type error and the other the error of
\* its Set, both with a nil payload and cached = false.
C28_Witness ==
    \E c \in AllCallers, d \in AllCallers :
        /\ Done(c) /\ ret[c].err = Unsupported /\ ret[c].value = Nil /\ ~ret[c].cached
        /\ Done(d) /\ ret[d].err = WriteFault /\ ret[d].value = Nil /\ ~ret[d].cached
        /\ obs[d].fn.err = NoErr /\ obs[d].loaderRuns = 1

\* The loader execution caller c took part in has returned the payload p
\* without error, for c's composed key.
ExecutionReturned(c, p) ==
    /\ joined[c] # 0 /\ key[joined[c]] = key[c]
    /\ obs[joined[c]].loaderRuns = 1 /\ call[joined[c]].done
    /\ obs[joined[c]].fn = [d |-> p, err |-> NoErr]

\* C29: every entry in the store is under the composed key of the Get call
\* that wrote it and holds the payload that the loader execution this call
\* took part in returned without error; every Set a caller has issued
\* carried that payload, so the Sets of callers that share an execution
\* carry the same one; and a Delete or DeleteByTags call leaves every entry
\* it does not remove as it was and adds none.
C29_PayloadProvenance ==
    /\ \A k \in DOMAIN store :
          /\ key[store[k].by] = k
          /\ ExecutionReturned(store[k].by, store[k].data)
    /\ \A c \in AllCallers :
          obs[c].setCalls > 0 => ExecutionReturned(c, obs[c].entry.data)
    /\ \A c \in AllCallers, d \in AllCallers :
          (joined[c] # 0 /\ joined[c] = joined[d]
           /\ obs[c].setCalls > 0 /\ obs[d].setCalls > 0)
          => obs[c].entry.data = obs[d].entry.data
    /\ lastDel.op # "none"
       => \A k \in DOMAIN lastDel.after :
             k \in DOMAIN lastDel.before /\ lastDel.after[k] = lastDel.before[k]

\* C29's case: two callers that shared one loader execution have both
\* issued their Set with its payload, with different tags, and a Delete or
\* DeleteByTags call that found nothing to remove has left the store as it
\* was.
C29_Witness ==
    /\ \E c \in AllCallers, d \in AllCallers :
          /\ c # d /\ joined[c] = joined[d] /\ joined[c] # 0
          /\ obs[c].setCalls = 1 /\ obs[d].setCalls = 1
          /\ obs[c].entry.data = obs[d].entry.data
          /\ obs[c].entry.tags # obs[d].entry.tags
    /\ lastDel.op # "none" /\ lastDel.err = NoErr
    /\ lastDel.after # <<>> /\ lastDel.after = lastDel.before

\* Caller c's Get is served from the cache in this step.
ServedNow(c) == pc[c] = "idle" /\ pc'[c] = "done" /\ ret'[c].cached

\* C30: a Get whose lookup finds an entry returns in the step of the
\* lookup; the step leaves the store (the entries with their payloads,
\* expirations and tags), the in-flight table and the calls as they are;
\* the call never enters the group, never applies its options (no fn of
\* WithDynamicTags runs) and issues no Set.
C30_HitIsReadOnly ==
    /\ [](\A c \in AllCallers :
            (Started(c) /\ obs[c].getErr = NoErr)
            => /\ Done(c) /\ joined[c] = 0 /\ obs[c].loaderRuns = 0
               /\ obs[c].setCalls = 0 /\ obs[c].fnCalls = 0
               /\ obs[c].opts = <<>>)
    /\ [][\A c \in AllCallers :
            ServedNow(c)
            => /\ obs'[c].getErr = NoErr
               /\ store' = store /\ sgm' = sgm /\ call' = call
               /\ nDeletes' = nDeletes /\ lastDel' = lastDel]_vars

\* C30's case: a Get has been served from the cache an earlier Get filled
\* with tags and an expiration, and the entry is in the store as written.
C30_Witness ==
    \E c \in AllCallers, w \in AllCallers :
        /\ Done(c) /\ ret[c].cached /\ obs[c].saw = w /\ obs[c].setCalls = 0
        /\ key[c] \in DOMAIN store /\ store[key[c]].by = w
        /\ store[key[c]].tags = obs[w].entry.tags /\ store[key[c]].tags # <<>>
        /\ store[key[c]].expiration = ShortExpiration

=============================================================================
